---- MODULE Spec2Model ----
(***************************************************************************)
(* Organization MFE backend (src/backend/src/index.js): a tenant-scoped    *)
(* CRUD service over one SQLite table, behind a JWT bearer-token check.    *)
(*                                                                         *)
(* Node runs every route handler to completion (better-sqlite3 is          *)
(* synchronous, the handlers contain no await), so one handler is one      *)
(* action.  Strings that the code inspects character by character (name,   *)
(* because of name.trim()) are sequences of one-character strings; the     *)
(* other text columns are only tested for truthiness and copied, so they   *)
(* are TLA+ strings with "" the empty string.                              *)
(***************************************************************************)
EXTENDS Integers, Sequences, FiniteSets, TLC

VARIABLES
    store,    \* the organizations table: id -> row, for the rows that exist
    issued,   \* ids uuidv4() has returned so far
    now,      \* the wall clock behind datetime('now')
    req,      \* the request handled last
    resp,     \* the response sent to it
    created,  \* history: id -> what POST answered, for rows not updated or deleted since
    deleted,  \* history: the ids a DELETE has removed
    replaced, \* history: the row the last request overwrote, when it was a successful PUT
    inflight,   \* requests received whose handler the event loop has not run yet
    adminToken, \* whether MFE_ADMIN_TOKEN is set to a non-empty string
    listening,  \* whether the server is listening
    reg,        \* how far autoRegister() has come
    sent,       \* the number of requests autoRegister() has sent to the host
    uiOrgs,     \* frontend: the list the form UI holds (the orgs state of App)
    loads,      \* frontend: the calls of load() whose fetch has not completed
    mutation,   \* frontend: the save or delete whose fetch has not completed
    started,    \* frontend: the number of calls of load() so far
    lastDone,   \* history: the number of the call of load() that completed last
    succeeded   \* history: whether a save or delete has succeeded

regVars == <<adminToken, listening, reg, sent>>

uiVars == <<uiOrgs, loads, mutation, started, lastDone, succeeded>>

vars == <<store, issued, now, req, resp, created, deleted, replaced,
          inflight, adminToken, listening, reg, sent,
          uiOrgs, loads, mutation, started, lastDone, succeeded>>

-----------------------------------------------------------------------------
(* Bounds of the model *)

MaxTime == 1        \* the clock runs 0 .. MaxTime

\* The values uuidv4() can return: opaque strings.  uuidv4() draws 122
\* random bits; the model lets it return any id it has not returned before.
Ids == {"id1", "id2"}
Tenants == {"t1", "t2"}

\* JavaScript's undefined, as the value of a claim the token does not carry
Undefined == "undefined"
\* SQL NULL in a text column
NULL == "NULL"

-----------------------------------------------------------------------------
(* Requests *)

\* A bearer token as jwt.verify sees it: whether it parses, whether its
\* signature matches JWT_SECRET, whether its exp lies in the past, and the
\* claims of its payload.
Token(wellFormed, sigValid, expired, payload) ==
    [wellFormed |-> wellFormed, sigValid |-> sigValid, expired |-> expired,
     payload |-> payload]

NoHeader == [present |-> FALSE]
Bearer(tok) == [present |-> TRUE, token |-> tok]

\* Tokens signed with JWT_SECRET and still valid, carrying a tenantId claim
TenantHeaders ==
    { Bearer(Token(TRUE, TRUE, FALSE, [tenantId |-> "t1"])),
      Bearer(Token(TRUE, TRUE, FALSE, [tenantId |-> "t2"])) }

\* A token signed with JWT_SECRET and still valid whose payload has no
\* tenantId claim
NoClaimHeader == Bearer(Token(TRUE, TRUE, FALSE, [sub |-> "u1"]))

\* No Authorization header, and tokens that do not parse, carry a wrong
\* signature or have expired
BadHeaders ==
    { NoHeader,
      Bearer(Token(FALSE, FALSE, FALSE, [tenantId |-> "t1"])),
      Bearer(Token(TRUE, FALSE, FALSE, [tenantId |-> "t1"])),
      Bearer(Token(TRUE, TRUE, TRUE, [tenantId |-> "t1"])) }

Headers == TenantHeaders \cup {NoClaimHeader} \cup BadHeaders

\* The text columns other than name, in the order of the table
OptionalFields ==
    {"org_number", "address", "city", "zip", "phone", "email", "website",
     "description"}

WhiteSpace == {" ", "\t"}

\* JSON request bodies: records holding only the keys the client sent.
\* The first three have no usable name.
NoNameBody == [city |-> "Stockholm"]
EmptyNameBody == [name |-> << >>, city |-> "Stockholm"]
BlankNameBody == [name |-> <<" ", "\t">>, org_number |-> "556"]
AcmeBody ==
    [name |-> <<" ", "a", " ">>, org_number |-> "", city |-> "Stockholm",
     id |-> "id2", tenant_id |-> "t2", created_at |-> "9", updated_at |-> "9"]
FullBody ==
    [name |-> <<"b">>, org_number |-> "556", address |-> "Gatan 1",
     city |-> "Goteborg", zip |-> "111", phone |-> "08", email |-> "a@b",
     website |-> "w.se", description |-> "d"]

Bodies == {NoNameBody, EmptyNameBody, BlankNameBody, AcmeBody, FullBody}

\* express.json() leaves {} when the request has no body
EmptyBody == [x \in {} |-> x]
NoId == ""

Request(op, header, id, body) ==
    [op |-> op, header |-> header, id |-> id, body |-> body]

Response(status, body) == [status |-> status, body |-> body]

ErrorBody(msg) == [error |-> msg]

-----------------------------------------------------------------------------
(* Token Verifier *)

\* jwt.verify as it would be if it did not look at exp
MutJwtVerifyIgnoresExpiry(tok) ==
    \/ ~tok.wellFormed
    \/ ~tok.sigValid

\* jwt.verify(token, JWT_SECRET): returns the payload, or throws when the
\* token does not parse, its signature is wrong or it has expired.
JwtVerifyThrows(tok) ==
    \/ ~tok.wellFormed
    \/ ~tok.sigValid
    \/ tok.expired

\* auth(req, res, next): the verdict on the Authorization header.  When the
\* verdict is "next", user is what the middleware leaves in req.user.
auth(header) ==
    IF ~header.present
    THEN [next |-> FALSE, resp |-> Response(401, ErrorBody("No token provided"))]
    ELSE IF JwtVerifyThrows(header.token)
         THEN [next |-> FALSE, resp |-> Response(401, ErrorBody("Invalid token"))]
         ELSE [next |-> TRUE, user |-> header.token.payload]

\* req.user.tenantId: undefined when the payload has no such claim
TenantIdOf(user) ==
    IF "tenantId" \in DOMAIN user THEN user.tenantId ELSE Undefined

-----------------------------------------------------------------------------
(* Request body *)

RECURSIVE TrimStart(_)
TrimStart(s) ==
    IF s # << >> /\ Head(s) \in WhiteSpace THEN TrimStart(Tail(s)) ELSE s

RECURSIVE TrimEnd(_)
TrimEnd(s) ==
    IF s # << >> /\ s[Len(s)] \in WhiteSpace
    THEN TrimEnd(SubSeq(s, 1, Len(s) - 1))
    ELSE s

\* String.prototype.trim
Trim(s) == TrimEnd(TrimStart(s))

\* The name check as it would be without the trim: !name
MutNameMissingNoTrim(body) ==
    \/ "name" \notin DOMAIN body
    \/ body.name = << >>

\* !name || !name.trim()
NameMissing(body) ==
    \/ "name" \notin DOMAIN body
    \/ body.name = << >>
    \/ Trim(body.name) = << >>

\* field || ''
OrEmpty(body, k) ==
    IF k \in DOMAIN body /\ body[k] # "" THEN body[k] ELSE ""

-----------------------------------------------------------------------------
(* Persistence Store: the statements the handlers prepare *)

\* datetime('now')
DateTime(t) == ToString(t)

\* better-sqlite3 binds numbers, strings, bigints, buffers and null; binding
\* undefined throws a TypeError, which Express answers with 500.
BindThrows(v) == v = Undefined

InternalError == Response(500, ErrorBody("Internal Server Error"))

\* The scoped select as it would be without its tenant_id condition
MutSelectIgnoresTenant(st, id, tenant) ==
    { st[i] : i \in { j \in DOMAIN st : j = id } }

\* SELECT * FROM organizations WHERE id = ? AND tenant_id = ?
\* (the set of matching rows: empty or one row)
SelectByIdAndTenant(st, id, tenant) ==
    { st[i] : i \in { j \in DOMAIN st : j = id /\ st[j].tenant_id = tenant } }

\* SELECT * FROM organizations WHERE id = ?
SelectById(st, id) ==
    { st[i] : i \in { j \in DOMAIN st : j = id } }

\* SELECT * FROM organizations WHERE tenant_id = ?
SelectByTenant(st, tenant) ==
    { st[i] : i \in { j \in DOMAIN st : st[j].tenant_id = tenant } }

Upper == << "A", "B", "C", "D", "E", "F", "G", "H", "I", "J", "K", "L", "M",
           "N", "O", "P", "Q", "R", "S", "T", "U", "V", "W", "X", "Y", "Z" >>
Lower == << "a", "b", "c", "d", "e", "f", "g", "h", "i", "j", "k", "l", "m",
           "n", "o", "p", "q", "r", "s", "t", "u", "v", "w", "x", "y", "z" >>

\* The byte a character of a name is stored as (tab, space, A-Z, a-z)
CharCode(c) ==
    IF c = "\t" THEN 9
    ELSE IF c = " " THEN 32
    ELSE IF \E k \in DOMAIN Upper : Upper[k] = c
    THEN 64 + (CHOOSE k \in DOMAIN Upper : Upper[k] = c)
    ELSE 96 + (CHOOSE k \in DOMAIN Lower : Lower[k] = c)

\* a < b in SQLite's BINARY collation
RECURSIVE TextLess(_, _)
TextLess(a, b) ==
    IF b = << >> THEN FALSE
    ELSE IF a = << >> THEN TRUE
    ELSE IF Head(a) # Head(b) THEN CharCode(Head(a)) < CharCode(Head(b))
    ELSE TextLess(Tail(a), Tail(b))

\* ORDER BY name: every sequence of the rows with names non-decreasing; SQL
\* leaves the order of rows with equal names open.
OrderByName(rows) ==
    { s \in [1 .. Cardinality(rows) -> rows] :
        /\ \A i, j \in DOMAIN s : i # j => s[i] # s[j]
        /\ \A i, j \in DOMAIN s : i < j => ~TextLess(s[j].name, s[i].name) }

\* The insert as it would be if updated_at defaulted to datetime('now') too
MutInsertRowStampsUpdated(id, tenant, name, body, t) ==
    [ id |-> id, tenant_id |-> tenant, name |-> name,
      org_number |-> OrEmpty(body, "org_number"),
      address |-> OrEmpty(body, "address"),
      city |-> OrEmpty(body, "city"),
      zip |-> OrEmpty(body, "zip"),
      phone |-> OrEmpty(body, "phone"),
      email |-> OrEmpty(body, "email"),
      website |-> OrEmpty(body, "website"),
      description |-> OrEmpty(body, "description"),
      created_at |-> DateTime(t),
      updated_at |-> DateTime(t) ]

\* INSERT INTO organizations (id, tenant_id, name, ...) VALUES (...):
\* created_at and updated_at take the column defaults.
InsertRow(id, tenant, name, body, t) ==
    [ id |-> id, tenant_id |-> tenant, name |-> name,
      org_number |-> OrEmpty(body, "org_number"),
      address |-> OrEmpty(body, "address"),
      city |-> OrEmpty(body, "city"),
      zip |-> OrEmpty(body, "zip"),
      phone |-> OrEmpty(body, "phone"),
      email |-> OrEmpty(body, "email"),
      website |-> OrEmpty(body, "website"),
      description |-> OrEmpty(body, "description"),
      created_at |-> DateTime(t),
      updated_at |-> NULL ]

Insert(st, row) ==
    [ i \in DOMAIN st \cup {row.id} |-> IF i = row.id THEN row ELSE st[i] ]

\* field || old value: what a partial patch would store
OrOld(old, body, k) ==
    IF k \in DOMAIN body /\ body[k] # "" THEN body[k] ELSE old[k]

\* The update as it would be if it kept the stored value of a field the
\* request leaves out or leaves empty
MutUpdateRowPatch(old, name, body, t) ==
    [ old EXCEPT
        !.name = name,
        !.org_number = OrOld(old, body, "org_number"),
        !.address = OrOld(old, body, "address"),
        !.city = OrOld(old, body, "city"),
        !.zip = OrOld(old, body, "zip"),
        !.phone = OrOld(old, body, "phone"),
        !.email = OrOld(old, body, "email"),
        !.website = OrOld(old, body, "website"),
        !.description = OrOld(old, body, "description"),
        !.updated_at = DateTime(t) ]

\* The update as it would be if it stamped created_at as well
MutUpdateRowTouchesCreated(old, name, body, t) ==
    [ old EXCEPT
        !.name = name,
        !.org_number = OrEmpty(body, "org_number"),
        !.address = OrEmpty(body, "address"),
        !.city = OrEmpty(body, "city"),
        !.zip = OrEmpty(body, "zip"),
        !.phone = OrEmpty(body, "phone"),
        !.email = OrEmpty(body, "email"),
        !.website = OrEmpty(body, "website"),
        !.description = OrEmpty(body, "description"),
        !.created_at = DateTime(t),
        !.updated_at = DateTime(t) ]

\* The update as it would be if it wrote the tenant_id of the request body
MutUpdateRowTakesTenant(old, name, body, t) ==
    [ old EXCEPT
        !.tenant_id = IF "tenant_id" \in DOMAIN body THEN body.tenant_id ELSE @,
        !.name = name,
        !.org_number = OrEmpty(body, "org_number"),
        !.address = OrEmpty(body, "address"),
        !.city = OrEmpty(body, "city"),
        !.zip = OrEmpty(body, "zip"),
        !.phone = OrEmpty(body, "phone"),
        !.email = OrEmpty(body, "email"),
        !.website = OrEmpty(body, "website"),
        !.description = OrEmpty(body, "description"),
        !.updated_at = DateTime(t) ]

\* The update as it would be if it left updated_at alone
MutUpdateRowNoStamp(old, name, body, t) ==
    [ old EXCEPT
        !.name = name,
        !.org_number = OrEmpty(body, "org_number"),
        !.address = OrEmpty(body, "address"),
        !.city = OrEmpty(body, "city"),
        !.zip = OrEmpty(body, "zip"),
        !.phone = OrEmpty(body, "phone"),
        !.email = OrEmpty(body, "email"),
        !.website = OrEmpty(body, "website"),
        !.description = OrEmpty(body, "description") ]

\* UPDATE organizations SET name=?, ..., updated_at=datetime('now')
\* WHERE id=? AND tenant_id=?
UpdateRow(old, name, body, t) ==
    [ old EXCEPT
        !.name = name,
        !.org_number = OrEmpty(body, "org_number"),
        !.address = OrEmpty(body, "address"),
        !.city = OrEmpty(body, "city"),
        !.zip = OrEmpty(body, "zip"),
        !.phone = OrEmpty(body, "phone"),
        !.email = OrEmpty(body, "email"),
        !.website = OrEmpty(body, "website"),
        !.description = OrEmpty(body, "description"),
        !.updated_at = DateTime(t) ]

\* The update as it would be with WHERE tenant_id=? alone
MutUpdateIgnoresId(st, id, tenant, name, body, t) ==
    [ i \in DOMAIN st |->
        IF st[i].tenant_id = tenant
        THEN UpdateRow(st[i], name, body, t)
        ELSE st[i] ]

Update(st, id, tenant, name, body, t) ==
    [ i \in DOMAIN st |->
        IF i = id /\ st[i].tenant_id = tenant
        THEN UpdateRow(st[i], name, body, t)
        ELSE st[i] ]

\* The delete as it would be if it removed nothing
MutDeleteKeepsRow(st, id, tenant) == st

\* DELETE FROM organizations WHERE id = ? AND tenant_id = ?
Delete(st, id, tenant) ==
    [ i \in { j \in DOMAIN st : ~(j = id /\ st[j].tenant_id = tenant) } |-> st[i] ]

-----------------------------------------------------------------------------
(* HTTP Surface: the route handlers, each as the set of outcomes          *)
(* [resp, store] it can produce from the table st.                        *)

Outcome(r, st) == [resp |-> r, store |-> st]

NotFound == Response(404, ErrorBody("Not found"))
\* the message is 'Namn krävs' in the source
NameRequired == Response(400, ErrorBody("Namn kravs"))

\* app.get('/organizations', auth, ...)
GetOrganizations(st, header) ==
    LET a == auth(header) IN
    IF ~a.next THEN { Outcome(a.resp, st) }
    ELSE LET tenantId == TenantIdOf(a.user) IN
         IF BindThrows(tenantId) THEN { Outcome(InternalError, st) }
         ELSE { Outcome(Response(200, [organizations |-> orgs]), st) :
                  orgs \in OrderByName(SelectByTenant(st, tenantId)) }

\* app.get('/organizations/:id', auth, ...)
GetOrganization(st, header, id) ==
    LET a == auth(header) IN
    IF ~a.next THEN { Outcome(a.resp, st) }
    ELSE LET tenantId == TenantIdOf(a.user) IN
         IF BindThrows(tenantId) THEN { Outcome(InternalError, st) }
         ELSE LET org == SelectByIdAndTenant(st, id, tenantId) IN
              IF org = {} THEN { Outcome(NotFound, st) }
              ELSE { Outcome(Response(200, o), st) : o \in org }

\* Whether POST gets as far as calling uuidv4()
PostCallsUuid(header, body) ==
    auth(header).next /\ ~NameMissing(body)

\* POST as it would be on a table without the PRIMARY KEY on id, where an
\* insert under an id in use takes the place of the row that has it
MutPostOrganizationNoPrimaryKey(st, header, body, id, t) ==
    LET a == auth(header) IN
    IF ~a.next THEN { Outcome(a.resp, st) }
    ELSE IF NameMissing(body) THEN { Outcome(NameRequired, st) }
    ELSE LET tenantId == TenantIdOf(a.user) IN
         IF BindThrows(tenantId) THEN { Outcome(InternalError, st) }
         ELSE LET new == Insert(st, InsertRow(id, tenantId, Trim(body.name), body, t)) IN
              { Outcome(Response(201, org), new) : org \in SelectById(new, id) }

\* app.post('/organizations', auth, ...); id is the value uuidv4() returns
\* and t the time of the insert.
PostOrganization(st, header, body, id, t) ==
    LET a == auth(header) IN
    IF ~a.next THEN { Outcome(a.resp, st) }
    ELSE IF NameMissing(body) THEN { Outcome(NameRequired, st) }
    ELSE LET tenantId == TenantIdOf(a.user) IN
         IF BindThrows(tenantId) THEN { Outcome(InternalError, st) }
         ELSE IF id \in DOMAIN st       \* PRIMARY KEY constraint
         THEN { Outcome(InternalError, st) }
         ELSE LET new == Insert(st, InsertRow(id, tenantId, Trim(body.name), body, t)) IN
              { Outcome(Response(201, org), new) : org \in SelectById(new, id) }

\* PUT as it would be if it looked the row up by id alone and answered 403
\* for a row of another tenant
MutPutOrganizationForbidden(st, header, id, body, t) ==
    LET a == auth(header) IN
    IF ~a.next THEN { Outcome(a.resp, st) }
    ELSE LET tenantId == TenantIdOf(a.user) IN
         IF BindThrows(tenantId) THEN { Outcome(InternalError, st) }
         ELSE IF SelectById(st, id) = {} THEN { Outcome(NotFound, st) }
         ELSE IF SelectByIdAndTenant(st, id, tenantId) = {}
         THEN { Outcome(Response(403, ErrorBody("Forbidden")), st) }
         ELSE IF NameMissing(body) THEN { Outcome(NameRequired, st) }
         ELSE LET new == Update(st, id, tenantId, Trim(body.name), body, t) IN
              { Outcome(Response(200, org), new) : org \in SelectById(new, id) }

\* PUT as it would be without the check of the name: a missing name makes
\* name.trim() throw, a blank one is trimmed and stored
MutPutOrganizationNoNameCheck(st, header, id, body, t) ==
    LET a == auth(header) IN
    IF ~a.next THEN { Outcome(a.resp, st) }
    ELSE LET tenantId == TenantIdOf(a.user) IN
         IF BindThrows(tenantId) THEN { Outcome(InternalError, st) }
         ELSE IF SelectByIdAndTenant(st, id, tenantId) = {} THEN { Outcome(NotFound, st) }
         ELSE IF "name" \notin DOMAIN body THEN { Outcome(InternalError, st) }
         ELSE LET new == Update(st, id, tenantId, Trim(body.name), body, t) IN
              { Outcome(Response(200, org), new) : org \in SelectById(new, id) }

\* PUT as it would be if it wrote the other fields before it checked the
\* name
MutPutOrganizationValidatesLate(st, header, id, body, t) ==
    LET a == auth(header) IN
    IF ~a.next THEN { Outcome(a.resp, st) }
    ELSE LET tenantId == TenantIdOf(a.user) IN
         IF BindThrows(tenantId) THEN { Outcome(InternalError, st) }
         ELSE IF SelectByIdAndTenant(st, id, tenantId) = {} THEN { Outcome(NotFound, st) }
         ELSE IF NameMissing(body)
         THEN { Outcome(NameRequired, Update(st, id, tenantId, st[id].name, body, t)) }
         ELSE LET new == Update(st, id, tenantId, Trim(body.name), body, t) IN
              { Outcome(Response(200, org), new) : org \in SelectById(new, id) }

\* PUT as it would be if the read-back ran before the UPDATE
MutPutOrganizationStaleReadBack(st, header, id, body, t) ==
    LET a == auth(header) IN
    IF ~a.next THEN { Outcome(a.resp, st) }
    ELSE LET tenantId == TenantIdOf(a.user) IN
         IF BindThrows(tenantId) THEN { Outcome(InternalError, st) }
         ELSE IF SelectByIdAndTenant(st, id, tenantId) = {} THEN { Outcome(NotFound, st) }
         ELSE IF NameMissing(body) THEN { Outcome(NameRequired, st) }
         ELSE LET new == Update(st, id, tenantId, Trim(body.name), body, t) IN
              { Outcome(Response(200, org), new) : org \in SelectById(st, id) }

\* app.put('/organizations/:id', auth, ...)
PutOrganization(st, header, id, body, t) ==
    LET a == auth(header) IN
    IF ~a.next THEN { Outcome(a.resp, st) }
    ELSE LET tenantId == TenantIdOf(a.user) IN
         IF BindThrows(tenantId) THEN { Outcome(InternalError, st) }
         ELSE IF SelectByIdAndTenant(st, id, tenantId) = {} THEN { Outcome(NotFound, st) }
         ELSE IF NameMissing(body) THEN { Outcome(NameRequired, st) }
         ELSE LET new == Update(st, id, tenantId, Trim(body.name), body, t) IN
              { Outcome(Response(200, org), new) : org \in SelectById(new, id) }

\* app.delete('/organizations/:id', auth, ...)
DeleteOrganization(st, header, id) ==
    LET a == auth(header) IN
    IF ~a.next THEN { Outcome(a.resp, st) }
    ELSE LET tenantId == TenantIdOf(a.user) IN
         IF BindThrows(tenantId) THEN { Outcome(InternalError, st) }
         ELSE IF SelectByIdAndTenant(st, id, tenantId) = {} THEN { Outcome(NotFound, st) }
         ELSE { Outcome(Response(200, [ok |-> TRUE]), Delete(st, id, tenantId)) }

-----------------------------------------------------------------------------
(* The service as a state machine *)

NoRequest == Request("none", NoHeader, NoId, EmptyBody)
NoResponse == Response(0, EmptyBody)

\* The save or delete of the form UI: phase "none" when there is none,
\* "sent" while the backend has not handled its request, "answered" while
\* the response is on its way
Mutation(phase, r, a) == [phase |-> phase, req |-> r, resp |-> a]
NoMutation == Mutation("none", NoRequest, NoResponse)

\* No page has the form UI open
NoUi ==
    /\ uiOrgs = << >>
    /\ loads = {}
    /\ mutation = NoMutation
    /\ started = 0
    /\ lastDone = 0
    /\ succeeded = FALSE

\* The table after CREATE TABLE IF NOT EXISTS on a new database file, and
\* no request handled yet
InitService ==
    /\ store = [i \in {} |-> i]
    /\ issued = {}
    /\ now = 0
    /\ req = NoRequest
    /\ resp = NoResponse
    /\ created = [i \in {} |-> i]
    /\ deleted = {}
    /\ replaced = {}
    /\ inflight = {}

\* The state once the table is created and the server listens, under the
\* default configuration (MFE_ADMIN_TOKEN unset): autoRegister() has logged
\* that it skips the registration and returned
Init ==
    /\ InitService
    /\ NoUi
    /\ adminToken = FALSE
    /\ listening = TRUE
    /\ reg = "skipped"
    /\ sent = 0

\* The requests the model sends.  A header that auth rejects, and one whose
\* token carries no tenantId, is answered before the handler looks at the id
\* or (but for the name check of POST) at the body, so these are sent with
\* one id and with one body with and one without a name; the tenants'
\* tokens are sent with every id and every body.
IdsWith(h) == IF h \in TenantHeaders THEN Ids ELSE {"id1"}
BodiesWith(h) == IF h \in TenantHeaders THEN Bodies ELSE {NoNameBody, AcmeBody}

\* Request r was answered with outcome o: the response goes out, the table
\* is as the handler left it, and the history variables record the step.
Answer(r, o) ==
    /\ listening
    /\ req' = r
    /\ resp' = o.resp
    /\ store' = o.store
    /\ created' =
         IF r.op = "post" /\ o.resp.status = 201
         THEN [ i \in DOMAIN created \cup {o.resp.body.id} |->
                  IF i = o.resp.body.id THEN o.resp.body ELSE created[i] ]
         ELSE IF r.op \in {"put", "delete"} /\ o.resp.status = 200
         THEN [ i \in DOMAIN created \ {r.id} |-> created[i] ]
         ELSE created
    /\ deleted' =
         IF r.op = "delete" /\ o.resp.status = 200
         THEN deleted \cup {r.id}
         ELSE deleted
    /\ replaced' =
         IF r.op = "put" /\ o.resp.status = 200
         THEN SelectById(store, r.id)
         ELSE {}
    /\ UNCHANGED <<now, regVars>>

List ==
    \E h \in Headers :
      \E o \in GetOrganizations(store, h) :
        /\ Answer(Request("list", h, NoId, EmptyBody), o)
        /\ UNCHANGED <<issued, inflight, uiVars>>

Get ==
    \E h \in Headers :
      \E id \in IdsWith(h) :
        \E o \in GetOrganization(store, h, id) :
          /\ Answer(Request("get", h, id, EmptyBody), o)
          /\ UNCHANGED <<issued, inflight, uiVars>>

Post ==
    \E h \in Headers :
      \E b \in BodiesWith(h) :
        \E id \in IF PostCallsUuid(h, b) THEN Ids \ issued ELSE {NoId} :
          \E o \in PostOrganization(store, h, b, id, now) :
            /\ Answer(Request("post", h, NoId, b), o)
            /\ issued' = IF PostCallsUuid(h, b) THEN issued \cup {id} ELSE issued
            /\ UNCHANGED <<inflight, uiVars>>

Put ==
    \E h \in Headers :
      \E id \in IdsWith(h), b \in BodiesWith(h) :
        \E o \in PutOrganization(store, h, id, b, now) :
          /\ Answer(Request("put", h, id, b), o)
          /\ UNCHANGED <<issued, inflight, uiVars>>

Del ==
    \E h \in Headers :
      \E id \in IdsWith(h) :
        \E o \in DeleteOrganization(store, h, id) :
          /\ Answer(Request("delete", h, id, EmptyBody), o)
          /\ UNCHANGED <<issued, inflight, uiVars>>

\* Time passes between requests
Tick ==
    /\ now < MaxTime
    /\ now' = now + 1
    /\ UNCHANGED <<store, issued, req, resp, created, deleted, replaced>>
    /\ UNCHANGED <<inflight, regVars, uiVars>>

Next == List \/ Get \/ Post \/ Put \/ Del \/ Tick

Spec == Init /\ [][Next]_vars

-----------------------------------------------------------------------------
(* The routes as one operator, for the specifications below *)

\* Express runs the handler of the route that matches the request; id is
\* the value uuidv4() returns if the handler calls it
Handle(st, r, id, t) ==
    CASE r.op = "list" -> GetOrganizations(st, r.header)
      [] r.op = "get" -> GetOrganization(st, r.header, r.id)
      [] r.op = "post" -> PostOrganization(st, r.header, r.body, id, t)
      [] r.op = "put" -> PutOrganization(st, r.header, r.id, r.body, t)
      [] r.op = "delete" -> DeleteOrganization(st, r.header, r.id)

CallsUuid(r) == r.op = "post" /\ PostCallsUuid(r.header, r.body)

\* The handler of request r runs, uuidv4() returning one of ids if called
ServeWith(r, ids) ==
    \E id \in IF CallsUuid(r) THEN ids ELSE {NoId} :
      \E o \in Handle(store, r, id, now) :
        /\ Answer(r, o)
        /\ issued' = IF CallsUuid(r) THEN issued \cup {id} ELSE issued

-----------------------------------------------------------------------------
(* The table when uuidv4() may return an id a second time *)

T1 == Bearer(Token(TRUE, TRUE, FALSE, [tenantId |-> "t1"]))
T2 == Bearer(Token(TRUE, TRUE, FALSE, [tenantId |-> "t2"]))

KeyRequests ==
    { Request("post", h, NoId, b) : h \in {T1, T2}, b \in {AcmeBody, FullBody} }
      \cup { Request("put", T1, id, FullBody) : id \in Ids }
      \cup { Request("delete", T1, id, EmptyBody) : id \in Ids }

\* Nothing but its 122 random bits keeps uuidv4() from returning an id that
\* is in use: here it returns any id
ServeKey ==
    /\ \E r \in KeyRequests : ServeWith(r, Ids)
    /\ UNCHANGED <<inflight, uiVars>>

NextKey == ServeKey \/ Tick

SpecKey == Init /\ [][NextKey]_vars

-----------------------------------------------------------------------------
(* Requests in flight at the same time *)

MaxInflight == 2    \* requests received and not yet handled

ConcRequests ==
    { Request("post", T1, NoId, AcmeBody),
      Request("put", T1, "id1", AcmeBody),
      Request("put", T1, "id1", FullBody),
      Request("put", T2, "id1", FullBody),
      Request("delete", T1, "id1", EmptyBody) }

\* The server receives a request while others wait for the event loop
Arrive ==
    /\ listening
    /\ Cardinality(inflight) < MaxInflight
    /\ \E r \in ConcRequests \ inflight : inflight' = inflight \cup {r}
    /\ UNCHANGED <<store, issued, now, req, resp, created, deleted, replaced>>
    /\ UNCHANGED <<regVars, uiVars>>

\* The event loop takes one of the waiting requests, in any order, and runs
\* its handler: the handlers are synchronous (better-sqlite3 calls, no
\* await), so the handler runs from the route match to res.json() before any
\* other handler starts
Dispatch ==
    \E r \in inflight :
      /\ ServeWith(r, Ids \ issued)
      /\ inflight' = inflight \ {r}
      /\ UNCHANGED uiVars

NextConc == Arrive \/ Dispatch

SpecConc == Init /\ [][NextConc]_vars

-----------------------------------------------------------------------------
(* Registration Announcer: app.listen and autoRegister *)

\* reg is "notStarted" until the listen callback calls autoRegister(), then
\* "skipped" (no admin token), "pending" (fetch not settled), "registered"
\* (res.ok), "rejected" (another status) or "failed" (the catch block)
RegSettled == {"skipped", "registered", "rejected", "failed"}

\* How the promise of fetch(), and that of res.text() after a non-OK
\* status, can settle
FetchOutcomes == {"ok", "notOk", "throws"}

\* autoRegister() up to its first await: return at once without a token,
\* else send the one POST to the host
AutoRegisterStart(token) ==
    IF ~token
    THEN [reg |-> "skipped", sends |-> 0]
    ELSE [reg |-> "pending", sends |-> 1]

\* autoRegister() as it would be if it sent the request again after a
\* failure
MutAutoRegisterSettleRetries(outcome) ==
    IF outcome = "ok"
    THEN [reg |-> "registered", sends |-> 0, alive |-> TRUE]
    ELSE [reg |-> "pending", sends |-> 1, alive |-> TRUE]

\* autoRegister() as it would be without try/catch: the rejection is
\* unhandled and Node ends the process
MutAutoRegisterSettleUncaught(outcome) ==
    [ reg |-> CASE outcome = "ok" -> "registered"
                [] outcome = "notOk" -> "rejected"
                [] outcome = "throws" -> "failed",
      sends |-> 0,
      alive |-> outcome # "throws" ]

\* autoRegister() after the await: log the outcome, whichever it is, and
\* return; the catch block takes every exception
AutoRegisterSettle(outcome) ==
    [ reg |-> CASE outcome = "ok" -> "registered"
                [] outcome = "notOk" -> "rejected"
                [] outcome = "throws" -> "failed",
      sends |-> 0,
      alive |-> TRUE ]

\* The process has started: table created, app.listen not yet called back
InitReg ==
    /\ InitService
    /\ NoUi
    /\ adminToken \in BOOLEAN
    /\ listening = FALSE
    /\ reg = "notStarted"
    /\ sent = 0

\* The callback of app.listen: the server listens, and autoRegister() is
\* called and not awaited
Listen ==
    /\ ~listening
    /\ reg = "notStarted"
    /\ listening' = TRUE
    /\ reg' = AutoRegisterStart(adminToken).reg
    /\ sent' = sent + AutoRegisterStart(adminToken).sends
    /\ UNCHANGED <<store, issued, now, req, resp, created, deleted, replaced>>
    /\ UNCHANGED <<inflight, adminToken, uiVars>>

\* The host answers, or the connection fails: the awaited promise settles
\* and autoRegister() runs to its end
HostAnswers ==
    /\ listening
    /\ reg = "pending"
    /\ \E outcome \in FetchOutcomes :
         /\ reg' = AutoRegisterSettle(outcome).reg
         /\ sent' = sent + AutoRegisterSettle(outcome).sends
         /\ listening' = AutoRegisterSettle(outcome).alive
    /\ UNCHANGED <<store, issued, now, req, resp, created, deleted, replaced>>
    /\ UNCHANGED <<inflight, adminToken, uiVars>>

RegRequests ==
    { Request("list", T1, NoId, EmptyBody),
      Request("list", NoHeader, NoId, EmptyBody),
      Request("post", T1, NoId, AcmeBody),
      Request("post", T2, NoId, FullBody),
      Request("get", T1, "id1", EmptyBody),
      Request("put", T1, "id1", FullBody),
      Request("delete", T1, "id1", EmptyBody) }

ServeReg ==
    /\ \E r \in RegRequests : ServeWith(r, Ids \ issued)
    /\ UNCHANGED <<inflight, uiVars>>

NextReg == Listen \/ HostAnswers \/ ServeReg

SpecReg == InitReg /\ [][NextReg]_vars

\* Node calls the listen callback once the port is bound; nothing makes the
\* host answer
SpecRegLive == InitReg /\ [][NextReg]_vars /\ WF_vars(Listen)

-----------------------------------------------------------------------------
(* GET /organizations over tables of up to three rows *)

ListIds == {"id1", "id2", "id3"}

Zeta == << "Z", "e", "t", "a" >>
Alpha == << "A", "l", "p", "h", "a" >>
Mid == << "M", "i", "d" >>
ListBodies == { [name |-> Zeta], [name |-> Alpha], [name |-> Mid] }

\* A table as POST requests handled at time 0 leave it: any of the three ids
\* present, each row of either tenant and under any of the three names
InitList ==
    /\ \E D \in SUBSET ListIds :
         \E tn \in [D -> Tenants], bd \in [D -> ListBodies] :
           store = [ i \in D |-> InsertRow(i, tn[i], Trim(bd[i].name), bd[i], 0) ]
    /\ issued = DOMAIN store
    /\ now = 0
    /\ req = NoRequest
    /\ resp = NoResponse
    /\ created = store
    /\ NoUi
    /\ deleted = {}
    /\ replaced = {}
    /\ inflight = {}
    /\ adminToken = FALSE
    /\ listening = TRUE
    /\ reg = "skipped"
    /\ sent = 0

NextList == List

SpecList == InitList /\ [][NextList]_vars

-----------------------------------------------------------------------------
(* Form UI (src/frontend/src/App.tsx): one page against the backend *)

MaxLoads == 3       \* calls of load(), the one on mount included

\* The page sends the token it finds in localStorage: here tenant t1's
UiHeader == T1

\* The form as JSON.stringify(form) sends it: all nine fields, '' when the
\* user left one empty
NamedForm ==
    [name |-> <<"a">>, org_number |-> "", address |-> "", city |-> "",
     zip |-> "", phone |-> "", email |-> "", website |-> "", description |-> ""]

\* handleSave() sends nothing when form.name.trim() is empty
UiForms == {NamedForm, FullBody}

\* A call of load(): its number, "sent" while the backend has not handled
\* GET /organizations and "answered" while the response is on its way
Load(n, phase, a) == [n |-> n, phase |-> phase, resp |-> a]

ListRequest == Request("list", UiHeader, NoId, EmptyBody)

\* What the page can send: a create, or an update or delete of a record of
\* the list it shows
UiIds == { uiOrgs[k].id : k \in DOMAIN uiOrgs }
UiRequests ==
    { Request("post", UiHeader, NoId, f) : f \in UiForms }
      \cup { Request("put", UiHeader, id, f) : id \in UiIds, f \in UiForms }
      \cup { Request("delete", UiHeader, id, EmptyBody) : id \in UiIds }

\* api() throws unless res.ok
ResOk(a) == a.status \in {200, 201}

\* The page after the first render and its effect: the state hooks hold
\* their initial values and the load() of useEffect has sent its request
InitUi ==
    /\ InitService
    /\ adminToken = FALSE
    /\ listening = TRUE
    /\ reg = "skipped"
    /\ sent = 0
    /\ uiOrgs = << >>
    /\ loads = { Load(1, "sent", NoResponse) }
    /\ mutation = NoMutation
    /\ started = 1
    /\ lastDone = 0
    /\ succeeded = FALSE

\* handleSave() or handleDelete() up to await api(...): the request goes
\* out, whether or not a load() is under way.  (The model keeps one save or
\* delete under way at a time and sends a create only while uuidv4() has an
\* id left.)
StartMutation ==
    /\ mutation.phase = "none"
    /\ started < MaxLoads
    /\ \E r \in UiRequests :
         /\ r.op = "post" => Ids \ issued # {}
         /\ mutation' = Mutation("sent", r, NoResponse)
    /\ UNCHANGED <<store, issued, now, req, resp, created, deleted, replaced>>
    /\ UNCHANGED <<inflight, regVars, uiOrgs, loads, started, lastDone, succeeded>>

\* The backend handles the save or delete
BackendMutation ==
    /\ mutation.phase = "sent"
    /\ ServeWith(mutation.req, Ids \ issued)
    /\ mutation' = Mutation("answered", mutation.req, resp')
    /\ UNCHANGED <<inflight, uiOrgs, loads, started, lastDone, succeeded>>

\* handleSave() or handleDelete() after the await: on success the page
\* calls load(), not awaited; an error goes to the catch block
MutationDone ==
    /\ mutation.phase = "answered"
    /\ mutation' = NoMutation
    /\ IF ResOk(mutation.resp)
       THEN /\ succeeded' = TRUE
            /\ started' = started + 1
            /\ loads' = loads \cup { Load(started + 1, "sent", NoResponse) }
       ELSE UNCHANGED <<succeeded, started, loads>>
    /\ UNCHANGED <<store, issued, now, req, resp, created, deleted, replaced>>
    /\ UNCHANGED <<inflight, regVars, uiOrgs, lastDone>>

\* The backend handles the GET /organizations of one of the calls of load()
BackendList ==
    /\ \E l \in loads :
         /\ l.phase = "sent"
         /\ ServeWith(ListRequest, {})
         /\ loads' = (loads \ {l}) \cup { Load(l.n, "answered", resp') }
    /\ UNCHANGED <<inflight, uiOrgs, mutation, started, lastDone, succeeded>>

\* load() after the await, for whichever response arrives next:
\* setOrgs(data.organizations || data), or setError in the catch block
LoadDone ==
    /\ \E l \in loads :
         /\ l.phase = "answered"
         /\ uiOrgs' = IF ResOk(l.resp) THEN l.resp.body.organizations ELSE uiOrgs
         /\ loads' = loads \ {l}
         /\ lastDone' = l.n
    /\ UNCHANGED <<store, issued, now, req, resp, created, deleted, replaced>>
    /\ UNCHANGED <<inflight, regVars, mutation, started, succeeded>>

NextUi == StartMutation \/ BackendMutation \/ MutationDone \/ BackendList \/ LoadDone

SpecUi == InitUi /\ [][NextUi]_vars

-----------------------------------------------------------------------------
(* Properties *)

\* The tenant identity a request's handler works with: req.user.tenantId
\* once auth has called next(), undefined when auth rejected the request
CallerOf(header) ==
    IF auth(header).next THEN TenantIdOf(auth(header).user) ELSE Undefined

\* A step that answers a request (Tick is the only step that moves the clock)
RequestStep == now' = now

Resps(outcomes) == { o.resp : o \in outcomes }

\* C1: tenant isolation.  Whatever a request carrying tenant t's identity
\* does, list and get answer only rows of t, and every row of another tenant
\* is in the table afterwards exactly as it was before.
C1_Step ==
    \A t \in Tenants :
      (RequestStep /\ CallerOf(req'.header) = t) =>
        /\ (req'.op = "list" /\ resp'.status = 200) =>
             \A k \in DOMAIN resp'.body.organizations :
               resp'.body.organizations[k].tenant_id = t
        /\ (req'.op \in {"get", "put"} /\ resp'.status = 200) =>
             resp'.body.tenant_id = t
        /\ \A i \in DOMAIN store :
             store[i].tenant_id # t => i \in DOMAIN store' /\ store'[i] = store[i]

C1_TenantIsolation == [][C1_Step]_vars

\* Tenant t2 asked for a row of t1 and was told it does not exist
C1_Witness ==
    /\ req.op = "get"
    /\ CallerOf(req.header) = "t2"
    /\ req.id \in DOMAIN store
    /\ store[req.id].tenant_id = "t1"
    /\ resp.status = 404

\* C2: isolation is indistinguishable from absence.  In every state, for
\* every tenant and every body, get, update and delete on an id owned by
\* another tenant answer exactly what they answer on an id no row has:
\* 404 with the body {error: 'Not found'}; and that is also what the last
\* request was answered when its id belongs to another tenant.
C2_IndistinguishableFromAbsence ==
    /\ \A h \in TenantHeaders, i \in Ids, j \in Ids, b \in Bodies :
         ( /\ i \in DOMAIN store
           /\ store[i].tenant_id # CallerOf(h)
           /\ j \notin DOMAIN store ) =>
           /\ Resps(GetOrganization(store, h, i)) = {NotFound}
           /\ Resps(GetOrganization(store, h, j)) = {NotFound}
           /\ Resps(PutOrganization(store, h, i, b, now)) = {NotFound}
           /\ Resps(PutOrganization(store, h, j, b, now)) = {NotFound}
           /\ Resps(DeleteOrganization(store, h, i)) = {NotFound}
           /\ Resps(DeleteOrganization(store, h, j)) = {NotFound}
    /\ ( /\ req.op \in {"get", "put", "delete"}
         /\ CallerOf(req.header) \in Tenants
         /\ req.id \in DOMAIN store
         /\ store[req.id].tenant_id # CallerOf(req.header) ) =>
         resp = NotFound

\* Tenant t2 sent an update without a name for a row of t1, while another id
\* has no row, and got 404
C2_Witness ==
    /\ req.op = "put"
    /\ req.body = NoNameBody
    /\ CallerOf(req.header) = "t2"
    /\ req.id \in DOMAIN store
    /\ store[req.id].tenant_id = "t1"
    /\ resp = NotFound
    /\ \E j \in Ids : j \notin DOMAIN store

\* C3: a request without Authorization header, or with a token that does not
\* parse, is forged or has expired, is answered 401 with an error body, and
\* the table and the issued ids are as before.
C3_Step ==
    (RequestStep /\ req'.header \in BadHeaders) =>
      /\ resp'.status = 401
      /\ resp'.body \in {ErrorBody("No token provided"), ErrorBody("Invalid token")}
      /\ store' = store
      /\ issued' = issued

C4_HandlerHasTenant ==
    (req.op # "none" /\ auth(req.header).next) =>
      TenantIdOf(auth(req.header).user) \in Tenants

\* C5: a create whose name is absent, "" or only white space is answered 400
\* and leaves the table as it was.
C5_Step ==
    ( /\ RequestStep
      /\ req'.op = "post"
      /\ auth(req'.header).next
      /\ \/ "name" \notin DOMAIN req'.body
         \/ req'.body.name = << >>
         \/ \A k \in DOMAIN req'.body.name : req'.body.name[k] \in WhiteSpace ) =>
      /\ resp' = NameRequired
      /\ store' = store

C5_CreateWithoutName == [][C5_Step]_vars

\* A tenant posted a name of white space only and got 400
C5_Witness ==
    /\ req.op = "post"
    /\ req.body = BlankNameBody
    /\ CallerOf(req.header) \in Tenants
    /\ resp.status = 400

\* C6: round trip.  What a successful create answers carries the caller's
\* tenant, "" in every optional field the request left out and a null
\* updated_at; and a get by the creating tenant on a row not updated or
\* deleted since answers 200 with exactly the record the create answered.
C6_CreateThenGet ==
    /\ (req.op = "post" /\ resp.status = 201) =>
         /\ resp.body.tenant_id = CallerOf(req.header)
         /\ \A k \in OptionalFields : k \notin DOMAIN req.body => resp.body[k] = ""
         /\ resp.body.updated_at = NULL
    /\ ( /\ req.op = "get"
         /\ req.id \in DOMAIN created
         /\ CallerOf(req.header) = created[req.id].tenant_id ) =>
         /\ resp.status = 200
         /\ resp.body = created[req.id]
         /\ resp.body.id = req.id
         /\ resp.body.tenant_id = CallerOf(req.header)
         /\ resp.body.updated_at = NULL

\* The creating tenant read back a row created at an earlier time, with an
\* optional field the create request had left out
C6_Witness ==
    /\ req.op = "get"
    /\ req.id \in DOMAIN created
    /\ resp.status = 200
    /\ resp.body = created[req.id]
    /\ resp.body.address = ""
    /\ resp.body.created_at # DateTime(now)

\* C7: delete is final.  An id a DELETE has removed has no row in any later
\* state; every later get, update and delete on it by any tenant, whatever
\* the body, answers 404; and no later list holds a row with that id.
C7_Step ==
    /\ \A i \in deleted' : i \notin DOMAIN store'
    /\ ( /\ RequestStep
         /\ CallerOf(req'.header) \in Tenants
         /\ req'.op \in {"get", "put", "delete"}
         /\ req'.id \in deleted ) =>
         resp' = NotFound
    /\ (RequestStep /\ req'.op = "list" /\ resp'.status = 200) =>
         \A k \in DOMAIN resp'.body.organizations :
           resp'.body.organizations[k].id \notin deleted

C7_DeleteIsFinal == [][C7_Step]_vars

\* An update with a complete body on a deleted id was answered 404
C7_Witness ==
    /\ req.op = "put"
    /\ req.id \in deleted
    /\ req.body = FullBody
    /\ CallerOf(req.header) \in Tenants
    /\ resp = NotFound

SameButUpdatedAt(a, b) ==
    [a EXCEPT !.updated_at = NULL] = [b EXCEPT !.updated_at = NULL]

\* C8: update is idempotent in effect.  When a successful update is sent
\* again as the next request, it succeeds again and every row is afterwards
\* what it was after the first, but for updated_at.
C8_Step ==
    (RequestStep /\ req.op = "put" /\ resp.status = 200 /\ req' = req) =>
      /\ resp'.status = 200
      /\ DOMAIN store' = DOMAIN store
      /\ \A i \in DOMAIN store : SameButUpdatedAt(store'[i], store[i])

C8_UpdateIdempotent == [][C8_Step]_vars

\* An update overwrote a row that an earlier update had left with the same
\* fields, and only updated_at moved
C8_Witness ==
    /\ req.op = "put"
    /\ resp.status = 200
    /\ \E r \in replaced :
         /\ r.updated_at # NULL
         /\ r.updated_at # store[req.id].updated_at
         /\ SameButUpdatedAt(r, store[req.id])

\* t is s without its leading and trailing white space
IsTrimOf(t, s) ==
    /\ t # << >> => Head(t) \notin WhiteSpace /\ t[Len(t)] \notin WhiteSpace
    /\ \E a \in 0 .. Len(s) :
         /\ a + Len(t) <= Len(s)
         /\ SubSeq(s, a + 1, a + Len(t)) = t
         /\ \A k \in 1 .. Len(s) :
              (k <= a \/ k > a + Len(t)) => s[k] \in WhiteSpace

\* C9: a successful update is a full replace.  Afterwards the row's name is
\* the request's name trimmed, every optional field is the request's value,
\* or "" when the request left it out, and the response is that row.
C9_FullReplace ==
    (req.op = "put" /\ resp.status = 200) =>
      /\ req.id \in DOMAIN store
      /\ IsTrimOf(store[req.id].name, req.body.name)
      /\ \A k \in OptionalFields :
           store[req.id][k] = IF k \in DOMAIN req.body THEN req.body[k] ELSE ""
      /\ resp.body = store[req.id]

\* An update that left out address emptied an address the row had
C9_Witness ==
    /\ req.op = "put"
    /\ resp.status = 200
    /\ "address" \notin DOMAIN req.body
    /\ store[req.id].address = ""
    /\ \E r \in replaced : r.address # ""

\* C10: id, tenant_id and created_at are immutable.  No step changes them
\* in a row it keeps, and a row a step adds carries the generated id, the
\* caller's tenant and the time of the insert, whatever the body holds.
C10_Step ==
    /\ \A i \in DOMAIN store \cap DOMAIN store' :
         /\ store'[i].id = store[i].id
         /\ store'[i].tenant_id = store[i].tenant_id
         /\ store'[i].created_at = store[i].created_at
    /\ \A i \in DOMAIN store' \ DOMAIN store :
         /\ store'[i].id = i
         /\ i \in issued' \ issued
         /\ store'[i].tenant_id = CallerOf(req'.header)
         /\ store'[i].created_at = DateTime(now)

C10_ImmutableFields == [][C10_Step]_vars

\* An update whose body names another tenant, id and creation time went
\* through on a row that has none of them
C10_Witness ==
    /\ req.op = "put"
    /\ resp.status = 200
    /\ "tenant_id" \in DOMAIN req.body
    /\ req.body.tenant_id # store[req.id].tenant_id
    /\ req.body.id # store[req.id].id
    /\ req.body.created_at # store[req.id].created_at


\* A step that answers PUT on row i with 200
UpdatedBy(i) ==
    RequestStep /\ req'.op = "put" /\ req'.id = i /\ resp'.status = 200

\* C11: updated_at is NULL from the insert until the first successful
\* update and holds the time of the update after every successful update.
\* A row a step adds has updated_at NULL; a successful PUT sets the
\* updated_at of its row to the (non-NULL) time of the update; every other
\* step, a PUT answered 404 or 400 among them, leaves updated_at of every
\* row as it was.  A row never updated since its insert has it NULL.
C11_Step ==
    /\ \A i \in DOMAIN store' \ DOMAIN store : store'[i].updated_at = NULL
    /\ \A i \in DOMAIN store \cap DOMAIN store' :
         IF UpdatedBy(i)
         THEN store'[i].updated_at = DateTime(now) /\ store'[i].updated_at # NULL
         ELSE store'[i].updated_at = store[i].updated_at
    /\ \A i \in DOMAIN created' :
         i \in DOMAIN store' /\ store'[i].updated_at = NULL
    /\ (RequestStep /\ req'.op = "put" /\ resp'.status \in {400, 404}) =>
         store' = store

C11_UpdatedAt == [][C11_Step]_vars

\* A first update went through: the row it replaced had updated_at NULL and
\* the row now holds the time of the update
C11_Witness ==
    /\ req.op = "put"
    /\ resp.status = 200
    /\ \E r \in replaced : r.updated_at = NULL
    /\ store[req.id].updated_at = DateTime(now)

Blank(name) == \A k \in DOMAIN name : name[k] \in WhiteSpace

\* C12: the name of every row in the table is neither empty nor made of
\* whitespace only.
C12_NameNeverBlank ==
    \A i \in DOMAIN store : ~Blank(store[i].name)

\* An update of an existing row of the caller with a whitespace-only name
\* was refused, and a name sent with spaces around it is stored
C12_Witness ==
    /\ req.op = "put"
    /\ req.body = BlankNameBody
    /\ resp = NameRequired
    /\ req.id \in DOMAIN store
    /\ store[req.id].tenant_id = CallerOf(req.header)
    /\ \E i \in DOMAIN store : store[i].name = <<"a">>

\* C19: a request answered 401, 400 or 404 leaves the whole table as it
\* was.  In particular PUT on a row of the caller with a missing, empty or
\* whitespace-only name is answered 400 and leaves the row, updated_at
\* included, as it was.
C19_Step ==
    RequestStep =>
      /\ resp'.status \in {400, 401, 404} => store' = store
      /\ ( /\ req'.op = "put"
           /\ req'.id \in DOMAIN store
           /\ store[req'.id].tenant_id = CallerOf(req'.header)
           /\ req'.body \in {NoNameBody, EmptyNameBody, BlankNameBody} ) =>
             /\ resp' = NameRequired
             /\ req'.id \in DOMAIN store'
             /\ store'[req'.id] = store[req'.id]

C19_ErrorsChangeNothing == [][C19_Step]_vars

\* PUT without a name on a row of the caller that an earlier update had
\* stamped was answered 400, other fields of the body being present
C19_Witness ==
    /\ req.op = "put"
    /\ req.body = NoNameBody
    /\ resp = NameRequired
    /\ req.id \in DOMAIN store
    /\ store[req.id].tenant_id = CallerOf(req.header)
    /\ store[req.id].updated_at # NULL
    /\ DOMAIN req.body # {}

\* Every row but row i is in the table after the step as it was before
OthersKept(i) ==
    \A j \in DOMAIN store \ {i} : j \in DOMAIN store' /\ store'[j] = store[j]

\* C20: a successful mutating request changes its target only.  POST adds
\* exactly one row and changes none; PUT changes at most the row of its id,
\* which is a row of the caller; DELETE removes that row and no other; GET
\* of one row or of the list changes nothing.
C20_Step ==
    RequestStep =>
      /\ req'.op \in {"list", "get"} => store' = store
      /\ (req'.op = "post" /\ resp'.status = 201) =>
           /\ Cardinality(DOMAIN store' \ DOMAIN store) = 1
           /\ \A j \in DOMAIN store : j \in DOMAIN store' /\ store'[j] = store[j]
      /\ (req'.op = "put" /\ resp'.status = 200) =>
           /\ DOMAIN store' = DOMAIN store
           /\ req'.id \in DOMAIN store
           /\ store[req'.id].tenant_id = CallerOf(req'.header)
           /\ OthersKept(req'.id)
      /\ (req'.op = "delete" /\ resp'.status = 200) =>
           /\ DOMAIN store' = DOMAIN store \ {req'.id}
           /\ req'.id \in DOMAIN store
           /\ store[req'.id].tenant_id = CallerOf(req'.header)
           /\ OthersKept(req'.id)

C20_Frame == [][C20_Step]_vars

\* An update went through while the caller's tenant held a second row with
\* other fields
C20_Witness ==
    /\ req.op = "put"
    /\ resp.status = 200
    /\ \E j \in DOMAIN store \ {req.id} :
         /\ store[j].tenant_id = store[req.id].tenant_id
         /\ store[j].name # store[req.id].name
         /\ store[j].city # store[req.id].city

NamesOf(orgs) == [ k \in DOMAIN orgs |-> orgs[k].name ]

\* The answer to the list request handled last is 200 with exactly the rows
\* of tenant t, each once, names ascending, the names being the same in every
\* answer the handler can give; three rows named Zeta, Alpha and Mid come as
\* Alpha, Mid, Zeta
ListedFor(t) ==
    LET orgs == resp.body.organizations
        mine == { i \in DOMAIN store : store[i].tenant_id = t }
    IN  /\ resp.status = 200
        /\ { orgs[k] : k \in DOMAIN orgs } = { store[i] : i \in mine }
        /\ Len(orgs) = Cardinality(mine)
        /\ \A k \in 1 .. Len(orgs) - 1 :
             \/ orgs[k].name = orgs[k + 1].name
             \/ TextLess(orgs[k].name, orgs[k + 1].name)
        /\ \A o \in GetOrganizations(store, req.header) :
             /\ o.resp.status = 200
             /\ NamesOf(o.resp.body.organizations) = NamesOf(orgs)
        /\ { store[i].name : i \in mine } = {Zeta, Alpha, Mid} /\ Cardinality(mine) = 3
             => NamesOf(orgs) = << Alpha, Mid, Zeta >>

\* C13: the list never fails for an authenticated caller, holds exactly the
\* rows of the caller's tenant (none when the tenant has none) and is
\* ordered by name ascending.  Every list request that auth lets through is
\* answered as ListedFor says, for the tenantId of its token.
C13_List ==
    (req.op = "list" /\ auth(req.header).next) => ListedFor(CallerOf(req.header))

\* The same for the callers whose token carries a tenantId
C13_ListOfTenant ==
    (req.op = "list" /\ CallerOf(req.header) \in Tenants) =>
      ListedFor(CallerOf(req.header))

\* Rows inserted as Zeta, Alpha, Mid for one tenant were listed for it
C13_Witness ==
    /\ req.op = "list"
    /\ resp.status = 200
    /\ DOMAIN store = ListIds
    /\ store["id1"].name = Zeta /\ store["id2"].name = Alpha /\ store["id3"].name = Mid
    /\ \A i \in ListIds : store[i].tenant_id = CallerOf(req.header)
    /\ NamesOf(resp.body.organizations) = << Alpha, Mid, Zeta >>

\* C14: id is unique over the whole table, and a create neither overwrites
\* nor collides with a row that exists.  Every row is stored under its own
\* id, so no two rows share one, whatever their tenants; a create answered
\* 201 added one row under an id no row had; and no create, whatever id
\* uuidv4() gave it, changed or removed a row.
C14_Step ==
    /\ \A i \in DOMAIN store' : store'[i].id = i
    /\ \A i, j \in DOMAIN store' : store'[i].id = store'[j].id => store'[i] = store'[j]
    /\ (RequestStep /\ req'.op = "post") =>
         /\ \A i \in DOMAIN store : i \in DOMAIN store' /\ store'[i] = store[i]
         /\ resp'.status = 201 =>
              /\ resp'.body.id \notin DOMAIN store
              /\ DOMAIN store' = DOMAIN store \cup {resp'.body.id}
         /\ resp'.status # 201 => store' = store

C14_IdUnique == [][C14_Step]_vars

\* uuidv4() returned the id of a row of another tenant: the create failed
\* and the row is there as it was
C14_Witness ==
    /\ req.op = "post"
    /\ resp = InternalError
    /\ CallerOf(req.header) = "t2"
    /\ \E i \in DOMAIN store : store[i].tenant_id = "t1"
    /\ \A i \in DOMAIN store : store[i].tenant_id = "t1"
    /\ Cardinality(DOMAIN store) = 2

\* The row holds exactly the field set of the body
OwnFields(row, body) ==
    /\ IsTrimOf(row.name, body.name)
    /\ \A k \in OptionalFields :
         row[k] = IF k \in DOMAIN body THEN body[k] ELSE ""

\* A step in which the handler of a waiting request ran
DispatchStep == req' \in inflight /\ inflight' = inflight \ {req'}

\* Request r finds a row of its caller under its id
Finds(r) ==
    r.id \in DOMAIN store /\ store[r.id].tenant_id = CallerOf(r.header)

\* C15: each single-row operation is atomic under concurrent requests.
\* With requests in flight together and handled in any order: a request
\* changes nothing before its handler runs; an update that finds its row is
\* answered with the row carrying exactly its own field set, which is the
\* row stored; an update that does not find it (a delete ran first) is
\* answered 404 and changes nothing; a delete removes the row whole; and
\* whenever a row changes, it changes to the complete field set of the
\* update handled in that step.
C15_Step ==
    /\ (inflight' # inflight /\ inflight \subseteq inflight') =>
         store' = store /\ resp' = resp
    /\ (DispatchStep /\ req'.op = "put") =>
         IF Finds(req')
         THEN /\ resp'.status = 200
              /\ OwnFields(resp'.body, req'.body)
              /\ req'.id \in DOMAIN store'
              /\ store'[req'.id] = resp'.body
              /\ OthersKept(req'.id)
         ELSE resp' = NotFound /\ store' = store
    /\ (DispatchStep /\ req'.op = "delete") =>
         IF Finds(req')
         THEN /\ resp'.status = 200
              /\ req'.id \notin DOMAIN store'
              /\ OthersKept(req'.id)
         ELSE resp' = NotFound /\ store' = store
    /\ \A i \in DOMAIN store \cap DOMAIN store' :
         store'[i] # store[i] =>
           /\ DispatchStep
           /\ req'.op = "put" /\ req'.id = i /\ resp'.status = 200
           /\ OwnFields(store'[i], req'.body)

C15_Atomic == [][C15_Step]_vars

\* An update went through on a row an earlier update had written, while a
\* delete of the same row by the same caller was in flight
C15_Witness ==
    /\ req.op = "put"
    /\ resp.status = 200
    /\ \E r \in replaced : r.updated_at # NULL /\ r.city # store[req.id].city
    /\ \E r \in inflight :
         r.op = "delete" /\ r.id = req.id /\ r.header = req.header

\* C16: the server serves whatever becomes of the registration.  From the
\* listen callback on, in every state of the registration (skipped, pending,
\* registered, rejected, failed), the server listens and a request can be
\* handled; it never stops listening; and a step of the registration
\* changes neither the table nor what a client was answered.
C16_Step ==
    /\ reg' # "notStarted" => listening'
    /\ listening => listening'
    /\ reg' # reg => store' = store /\ req' = req /\ resp' = resp

C16_ServesRegardless ==
    /\ [][C16_Step]_vars
    /\ [](reg # "notStarted" => listening /\ ENABLED ServeReg)

\* The registration failed in the catch block, and the server listens and
\* has answered a create
C16_Witness ==
    /\ reg = "failed"
    /\ listening
    /\ req.op = "post"
    /\ resp.status = 201

\* C17: the registration is one-shot.  At most one request is ever sent to
\* the host, none without an admin token, and exactly one once the
\* registration is pending or has ended as registered, rejected or failed.
C17_OneShot ==
    /\ sent <= 1
    /\ ~adminToken => sent = 0 /\ reg \in {"notStarted", "skipped"}
    /\ reg \in {"pending", "registered", "rejected", "failed"} => sent = 1

\* The host answered with a non-OK status, and one request was sent
C17_Witness ==
    /\ reg = "rejected"
    /\ adminToken
    /\ sent = 1

\* C18: the registration call has a timeout of its own: when the host never
\* answers, the registration still ends.  A pending registration leads to a
\* settled one.
C18_RegistrationEnds == (reg = "pending") ~> (reg \in RegSettled)

\* No fetch of the page is under way
Quiescent == loads = {} /\ mutation.phase = "none"

\* What GET /organizations answers the page on the table as it is
CurrentLists ==
    { o.resp.body.organizations : o \in GetOrganizations(store, UiHeader) }

\* C21: once a save or delete has succeeded and every fetch of the list,
\* the one of the mount and the ones after each save or delete, has
\* completed, in whatever order, the list of the page is the backend's list
\* for the tenant.
C21_UiListCurrent ==
    (succeeded /\ Quiescent) => uiOrgs \in CurrentLists

\* The same when the call of load() that completed last is the one that
\* started last
C21_LastStartedLast ==
    (succeeded /\ Quiescent /\ lastDone = started) => uiOrgs \in CurrentLists

\* A create succeeded, the backend lists its row, every fetch has completed,
\* the fetch of the mount last
C21_Witness ==
    /\ succeeded
    /\ Quiescent
    /\ started = 2
    /\ lastDone = 1
    /\ store # << >>
====
